---------------------------- MODULE Spec2Model ----------------------------
(***************************************************************************)
(* A model of pyem's map.py: main's pose pipeline, resample_volume and     *)
(* ismask.                                                                 *)
(*                                                                         *)
(* Conventions of the model                                                *)
(*  - map.py is a Python 2.7 program (shebang, xrange, an int "/" used as  *)
(*    a slice index): "/" between integers is floor division.              *)
(*  - Lengths in voxel units are kept as integers in HALF voxels (a value  *)
(*    h stands for h/2 voxels), so that "- 0.5" and a division by a pixel  *)
(*    size of 1 or 2 are exact.                                            *)
(*  - Python's None is the empty tuple, a present value x is <<x>>.        *)
(*  - A volume is a record: the buffer that holds it (buf), its shape, the *)
(*    pattern of voxel values it was read with (kind), whether it was      *)
(*    z-scored (norm) and the sequence of resampling calls applied to it   *)
(*    (ops), each with the arguments map.py passed.                        *)
(***************************************************************************)
EXTENDS Integers, Sequences, FiniteSets, TLC

VARIABLES args, hdr, data, final, origin, apix, pc, ret, exc, log, written,
          nextbuf, call, result, eulerpath

vars == <<args, hdr, data, final, origin, apix, pc, ret, exc, log, written,
          nextbuf, call, result, eulerpath>>

mainvars == <<args, hdr, data, final, origin, apix, pc, ret, exc, log, written>>

callvars == <<call, result, eulerpath>>

---------------------------------------------------------------------------
(* Bounds of the model and constants of the program *)

\* Box edges of the volumes handed to resample_volume directly: 1..MaxDim.
MaxDim == 3

\* Largest magnitude of a translation component handed to resample_volume.
MaxShift == 1

\* ismask's threshold on the number of distinct values.
MaskThreshold == 100

\* The default of --spline-order.
DefaultOrder == 3

\* The pixel size the header yields (xlen / nx) in the modelled inputs.
HeaderApix == 1

---------------------------------------------------------------------------
(* Values *)

None == <<>>

Some(x) == <<x>>

Get(o) == o[1]

RECURSIVE Prod(_)
Prod(s) == IF s = <<>> THEN 1 ELSE Head(s) * Prod(Tail(s))

\* A comma-separated token: a numeral (num, with its value) or not.
Tok(v) == [num |-> TRUE, v |-> v]

BadTok == [num |-> FALSE, v |-> 0]

Toks(s) == [i \in 1..Len(s) |-> Tok(s[i])]

\* A matrix: where it came from, its shape and its entries in row-major
\* order. A --matrix argument is "json" once json.loads and np.array took
\* it, "badjson" when json.loads raises.
Matrix(dims, val) == [from |-> "json", dims |-> dims, val |-> val]

BadJson == [from |-> "badjson", dims |-> <<>>, val |-> <<>>]

\* The empty string given as --matrix: json.loads raises on it as well.
EmptyJson == [from |-> "empty", dims |-> <<>>, val |-> <<>>]

Identity3 == Matrix(<<3, 3>>, <<1, 0, 0,  0, 1, 0,  0, 0, 1>>)

\* A quarter turn about the third axis.
RotZ90 == Matrix(<<3, 3>>, <<0, -1, 0,  1, 0, 0,  0, 0, 1>>)

\* A quarter turn about the first axis.
RotX90 == Matrix(<<3, 3>>, <<1, 0, 0,  0, 0, -1,  0, 1, 0>>)

\* The 3x4 form: a rotation with a translation column.
WithColumn(m, c) ==
    Matrix(<<3, 4>>, <<m.val[1], m.val[2], m.val[3], c[1],
                       m.val[4], m.val[5], m.val[6], c[2],
                       m.val[7], m.val[8], m.val[9], c[3]>>)

\* A nested list of depth three: an array of shape (rows, cols, 2).
Stacked(rows, cols) ==
    Matrix(<<rows, cols, 2>>, [i \in 1..(rows * cols * 2) |-> 0])

\* The rotation returned by pyem.util's converters (vec2rot, euler2rot) is
\* opaque: a 3x3 array, kept as the converter and its argument.
Opaque(from, arg) == [from |-> from, dims |-> <<3, 3>>, val |-> arg]

Entry(r, row, col) == r.val[(row - 1) * r.dims[2] + col]

Volume(buf, shape, kind) ==
    [buf |-> buf, shape |-> shape, kind |-> kind, norm |-> "none", ops |-> <<>>]

---------------------------------------------------------------------------
(* Voxel values of a volume as read *)

Indices(shape) ==
    {<<i, j, k>> : i \in 0..(shape[1] - 1), j \in 0..(shape[2] - 1),
                   k \in 0..(shape[3] - 1)}

\* The patterns of the modelled input volumes: a binary checkerboard, a
\* ramp with every voxel distinct, and rows constant along the last axis.
Vox(vol, idx) ==
    CASE vol.kind = "binary" -> (idx[1] + idx[2] + idx[3]) % 2
      [] vol.kind = "ramp"   ->
            (idx[1] * vol.shape[2] + idx[2]) * vol.shape[3] + idx[3]
      [] vol.kind = "rows"   -> idx[1] * vol.shape[2] + idx[2]

\* vol[start::step] along the first axis.
Strided(shape, start, step) ==
    {idx \in Indices(shape) : idx[1] >= start /\ (idx[1] - start) % step = 0}

\* ismask counting the distinct values of the whole volume.
ismaskWhole(vol) ==
    Cardinality({Vox(vol, idx) : idx \in Indices(vol.shape)}) < MaskThreshold

ismask(vol) ==
    Cardinality({Vox(vol, idx) :
                   idx \in Strided(vol.shape, vol.shape[3] \div 2, vol.shape[3])})
        < MaskThreshold

---------------------------------------------------------------------------
(* resample_volume *)

Return(vol) == [exc |-> "", vol |-> vol]

Raise(e, vol) == [exc |-> e, vol |-> vol]

\* The input itself in place of a copy.
CopyAliased(vol) == vol

\* A fresh buffer with the voxels of vol.
Copy(vol) == [vol EXCEPT !.buf = nextbuf]

\* A resampling of the volume as read in place of the volume handed over.
ResampledFromRead(vol, op) == [vol EXCEPT !.buf = nextbuf, !.ops = <<op>>]

\* The array a library resampling call returns: a fresh buffer of the shape
\* of its input, holding the input resampled with the arguments given.
Resampled(vol, op) == [vol EXCEPT !.buf = nextbuf, !.ops = Append(@, op)]

\* np.array(vol.shape) / 2, in half voxels.
DefaultOri(shape) == [a \in 1..Len(shape) |-> 2 * (shape[a] \div 2)]

\* len(np.arange(-o, o)) for o = o2/2: ceil(2o) when positive, else 0.
ArangeLen(o2) == IF o2 > 0 THEN o2 ELSE 0

\* The number of points of np.meshgrid(*[np.arange(-o, o) for o in ori]).
GridSize(ori) == Prod([a \in 1..Len(ori) |-> ArangeLen(ori[a])])

\* An array of length n is assigned to, or combined with, one of length m.
Fits(n, m) == n = m \/ n = 1

\* a - b with numpy's broadcasting of a length-1 operand.
Sub(a, b) ==
    LET n == IF Len(a) >= Len(b) THEN Len(a) ELSE Len(b)
        at(v, i) == IF Len(v) = 1 THEN v[1] ELSE v[i]
    IN  [i \in 1..n |-> at(a, i) - at(b, i)]

\* th[:3,3] when the grid is transformed, in half voxels.
ThColumn(r, t, ori) ==
    IF t # None THEN Sub(Get(t), ori) ELSE <<0, 0, 0>>

\* r[:3,:3].T is assigned to rh[:3,:3]: an extent of r is cut to 3 and must
\* then be 3, or 1 and broadcast.
SliceFits(n) == n = 1 \/ n >= 3

\* np.squeeze(r[:,3]) - ori, r of two dimensions or more: the column has
\* the shape of r without its second extent, squeeze drops the extents of 1,
\* and the last extent left, if any, must be the 3 of ori.
ColumnFits(dims) ==
    LET s == SelectSeq(<<dims[1]>> \o SubSeq(dims, 3, Len(dims)),
                       LAMBDA d : d # 1)
    IN  s = <<>> \/ s[Len(s)] = 3

\* rh[:3,:3] = r[:3,:3].T, r of two dimensions or more: the transpose has
\* the extents of r reversed, and the ones beyond the first two, which come
\* to lead, must be 1 for the value to go into the 3x3 block.
BlockFits(dims) ==
    /\ SliceFits(dims[1])
    /\ SliceFits(dims[2])
    /\ \A i \in 3..Len(dims) : dims[i] = 1

\* The first statement of resample_volume that raises, with its line, and ""
\* when none does. ori is the origin in use (after line 149).
ResampleError(vol, r, t, ori) ==
    IF Len(ori) # 3 THEN "ValueError:151"
    ELSE IF t = None /\ Len(Get(r).dims) < 2 THEN "IndexError:155"
    ELSE IF t = None /\ Get(r).dims[2] = 4 /\ ~ColumnFits(Get(r).dims)
         THEN "ValueError:156"
    ELSE IF t # None /\ ~Fits(Len(Get(t)), 3) THEN "ValueError:158"
    ELSE IF r # None /\ Len(Get(r).dims) < 2 THEN "IndexError:162"
    ELSE IF r # None /\ ~BlockFits(Get(r).dims) THEN "ValueError:162"
    ELSE IF GridSize(ori) # Prod(vol.shape) THEN "ValueError:165"
    ELSE ""

resample_volume(vol, r, t, ori, order) ==
    IF r = None /\ t = None THEN Return(Copy(vol))
    ELSE LET o == IF ori = None THEN DefaultOri(vol.shape) ELSE Get(ori)
             e == ResampleError(vol, r, t, o)
         IN  IF e # "" THEN Raise(e, vol)
             ELSE Return(Resampled(vol,
                    [fn |-> "map_coordinates", r |-> r, t |-> ThColumn(r, t, o),
                     ori |-> o, order |-> order]))

---------------------------------------------------------------------------
(* The source coordinate sampled for an output voxel, in half voxels. These
   are defined for r absent or a numeric array of 3 rows and 3 or 4 columns. *)

\* The point of the flattened meshgrid (indexing="xy": the arrays have shape
\* (len(b), len(a), len(c)) and x runs along their second axis) that
\* reshape(vol.shape) puts at output index idx.
GridPoint(shape, ori, idx) ==
    LET na == ArangeLen(ori[1])
        nc == ArangeLen(ori[3])
        f  == (idx[1] * shape[2] + idx[2]) * shape[3] + idx[3]
        p  == f \div (na * nc)
        q  == (f \div nc) % na
        s  == f % nc
    IN  <<2 * q - ori[1], 2 * p - ori[2], 2 * s - ori[3]>>

\* r[:3,:3].T applied to g (g itself when r is absent).
RotT(r, g) ==
    IF r = None THEN g
    ELSE [a \in 1..3 |-> Entry(Get(r), 1, a) * g[1] + Entry(Get(r), 2, a) * g[2]
                         + Entry(Get(r), 3, a) * g[3]]

\* th.dot(rh.dot(xyz))[:3,:] + ori[:,None] at output index idx.
SourceCoord(shape, r, t, ori, idx) ==
    LET h  == RotT(r, GridPoint(shape, ori, idx))
        th == ThColumn(r, t, ori)
    IN  [a \in 1..3 |-> h[a] + th[a] + ori[a]]

\* affine_transform(data, r.T, offset=offset) samples r.T.dot(idx) + offset,
\* with offset = (origin - 0.5) - r.T.dot(origin - 0.5).
EulerSource(r, ori, idx) ==
    LET c   == [a \in 1..3 |-> ori[a] - 1]
        rc  == RotT(r, c)
        ri  == RotT(r, [a \in 1..3 |-> 2 * idx[a]])
    IN  [a \in 1..3 |-> ri[a] + c[a] - rc[a]]

---------------------------------------------------------------------------
(* main: the inputs *)

\* The empty string given as a list argument.
EmptyText == <<>>

\* [np.double(tok) for tok in s.split(",")]: raises on a token that is no
\* numeral (the empty string splits into one empty token, which is none),
\* and takes a list of any length.
ParseList(toks) ==
    [ok |-> toks # EmptyText /\ \A i \in 1..Len(toks) : toks[i].num,
     val |-> [i \in 1..Len(toks) |-> toks[i].v]]

\* np.array(...) / apix, from physical units to half voxels (the modelled
\* pixel sizes are 1 and 2, which divide exactly).
ToVox(val, px) == [i \in 1..Len(val) |-> (2 * val[i]) \div px]

\* The volumes read: a shape and a pattern of values.
InputVolumes ==
    { [shape |-> <<2, 2, 2>>,    kind |-> "binary"],
      [shape |-> <<3, 3, 3>>,    kind |-> "ramp"],
      [shape |-> <<4, 2, 2>>,    kind |-> "ramp"],
      [shape |-> <<10, 10, 10>>, kind |-> "ramp"],
      [shape |-> <<10, 10, 10>>, kind |-> "rows"] }

OriginArgs ==
    { None, Some(Toks(<<1, 1, 1>>)), Some(Toks(<<2, 2, 2>>)),
      Some(Toks(<<-1, 1, 1>>)), Some(<<Tok(1), BadTok, Tok(1)>>),
      Some(Toks(<<1, 1>>)), Some(Toks(<<1>>)), Some(Toks(<<3, 1, 1>>)) }

TargetArgs ==
    { None, Some(Toks(<<1, 1, 2>>)), Some(<<Tok(1), BadTok, Tok(2)>>),
      Some(Toks(<<1, 2>>)), Some(EmptyText) }

EulerArgs ==
    { None, Some(Toks(<<0, 90, 0>>)), Some(<<Tok(0), BadTok, Tok(0)>>),
      Some(Toks(<<0, 90>>)) }

TranslateArgs ==
    { None, Some(Toks(<<1, 0, 0>>)), Some(<<BadTok, Tok(0), Tok(0)>>),
      Some(Toks(<<1, 0>>)) }

MatrixArgs ==
    { None, Some(BadJson), Some(EmptyJson), Some(RotZ90),
      Some(WithColumn(Identity3, <<1, 0, 0>>)),
      Some(Matrix(<<2>>, <<1, 2>>)), Some(Matrix(<<2, 2>>, <<1, 0, 0, 1>>)),
      Some(Stacked(3, 3)) }

\* The invocations modelled: every combination of the pose arguments with
\* the header's pixel size, and smaller families with normalization (against
\* the volume itself or a reference) and with a pixel size given.
ArgsSpace ==
    [normalize : {FALSE}, verbose : {FALSE}, reference : {None}, apix : {None},
     origin : OriginArgs, target : TargetArgs, euler : EulerArgs,
     translate : TranslateArgs, matrix : MatrixArgs,
     spline_order : {0, DefaultOrder}]
    \cup
    [normalize : {TRUE}, verbose : BOOLEAN, reference : {None, Some("ref")},
     apix : {None},
     origin : {None, Some(Toks(<<1, 1, 1>>))},
     target : {None, Some(Toks(<<1, 1, 2>>)), Some(Toks(<<1, 2>>))},
     euler : {None, Some(Toks(<<0, 90, 0>>))},
     translate : {None, Some(Toks(<<1, 0, 0>>))},
     matrix : {None, Some(BadJson), Some(RotZ90)},
     spline_order : {0, DefaultOrder}]
    \cup
    [normalize : {FALSE}, verbose : {TRUE}, reference : {None}, apix : {Some(2)},
     origin : OriginArgs,
     target : {None, Some(Toks(<<1, 1, 2>>))}, euler : {None},
     translate : {None, Some(Toks(<<1, 0, 0>>))}, matrix : {None},
     spline_order : {DefaultOrder}]

\* The state of resample_volume's direct caller while main runs.
CallIdle ==
    /\ call = None
    /\ result = None
    /\ eulerpath = None

\* data, hdr = read(args.input, inc_header=True): the array has the shape
\* (nx, ny, nz) of the header.
Init ==
    /\ args \in ArgsSpace
    /\ \E v \in InputVolumes :
          /\ data = Volume(0, v.shape, v.kind)
          /\ hdr = [nx |-> v.shape[1], ny |-> v.shape[2], nz |-> v.shape[3],
                    xlen |-> v.shape[1] * HeaderApix]
    /\ final = None
    /\ origin = None
    /\ apix = None
    /\ pc = "normalize"
    /\ ret = None
    /\ exc = ""
    /\ log = <<>>
    /\ written = <<>>
    /\ nextbuf = 1
    /\ CallIdle

box == <<hdr.nx, hdr.ny, hdr.nz>>

---------------------------------------------------------------------------
(* main: the steps, in the order of the code *)

\* A failure that writes the working volume before it returns 1.
FailAfterWrite(msg) ==
    /\ log' = Append(log, msg)
    /\ ret' = Some(1)
    /\ pc' = "done"
    /\ written' = Append(written, data)
    /\ UNCHANGED <<args, hdr, data, final, origin, apix, exc, nextbuf>>

\* log.error(msg); return 1
Fail(msg) ==
    /\ log' = Append(log, msg)
    /\ ret' = Some(1)
    /\ pc' = "done"
    /\ UNCHANGED <<args, hdr, data, final, origin, apix, exc, written, nextbuf>>

\* An exception that no handler of main catches leaves main.
Uncaught(e) ==
    /\ exc' = e
    /\ pc' = "done"
    /\ UNCHANGED <<args, hdr, data, final, origin, apix, ret, log, written, nextbuf>>

\* The working volume is replaced by the result of a resampling call.
Replace(vol, next) ==
    /\ data' = vol
    /\ nextbuf' = nextbuf + 1
    /\ pc' = next
    /\ UNCHANGED <<args, hdr, final, origin, apix, ret, exc, log, written>>

Skip(next) ==
    /\ pc' = next
    /\ UNCHANGED <<args, hdr, data, final, origin, apix, ret, exc, log, written, nextbuf>>

\* final = (data - mu) / sigma, a new array; data stays as read.
Normalized(vol) ==
    [vol EXCEPT !.buf = nextbuf,
                !.norm = IF args.reference # None THEN "ref" ELSE "self"]

Normalize ==
    /\ pc = "normalize"
    /\ UNCHANGED callvars
    /\ pc' = "apix"
    /\ IF args.normalize
       THEN /\ final' = Some(Normalized(data))
            /\ nextbuf' = nextbuf + 1
            /\ log' = IF args.verbose
                      THEN Append(log, "info: mean and standard deviation")
                      ELSE log
       ELSE UNCHANGED <<final, nextbuf, log>>
    /\ UNCHANGED <<args, hdr, data, origin, apix, ret, exc, written>>

ResolveApix ==
    /\ pc = "apix"
    /\ UNCHANGED callvars
    /\ pc' = "advise"
    /\ IF args.apix = None
       THEN /\ apix' = Some(hdr.xlen \div hdr.nx)
            /\ log' = Append(log, "info: computed pixel size")
       ELSE /\ apix' = args.apix
            /\ UNCHANGED log
    /\ UNCHANGED <<args, hdr, data, final, origin, ret, exc, written, nextbuf>>

\* The truth value of a list argument: given and not the empty string.
TruthyList(a) == a # None /\ Get(a) # EmptyText

\* The truth value of the matrix argument: given and not the empty string.
TruthyMatrix(m) == m # None /\ Get(m).from # "empty"

\* The advisories on requests that will be applied one after the other: the
\* first tests the arguments' truth values, the others that they are given.
Advisories ==
    (IF TruthyList(args.target) /\ TruthyMatrix(args.matrix)
     THEN <<"warn: target after matrix">> ELSE <<>>)
    \o (IF args.euler # None /\ (args.target # None \/ args.matrix # None)
        THEN <<"warn: euler after target">> ELSE <<>>)
    \o (IF args.translate # None
           /\ (args.euler # None \/ args.target # None \/ args.matrix # None)
        THEN <<"warn: translation after others">> ELSE <<>>)

Advise ==
    /\ pc = "advise"
    /\ UNCHANGED callvars
    /\ pc' = "origin"
    /\ log' = log \o Advisories
    /\ UNCHANGED <<args, hdr, data, final, origin, apix, ret, exc, written, nextbuf>>

\* np.all(origin < box), the origin in half voxels; the comparison raises
\* when the lengths cannot be broadcast.
WithinBox(o) ==
    /\ Fits(Len(o), 3)
    /\ \A a \in 1..3 : (IF Len(o) = 1 THEN o[1] ELSE o[a]) < 2 * box[a]

\* The parsed origin is stored in args.origin (line 76) before the bounds
\* are asserted (line 77): a rejected origin stays there, an unparsable one
\* leaves the argument as given.
ResolveOrigin ==
    /\ pc = "origin"
    /\ UNCHANGED callvars
    /\ IF args.origin # None
       THEN LET p == ParseList(Get(args.origin))
                o == ToVox(p.val, Get(apix))
            IN  IF p.ok /\ WithinBox(o)
                THEN /\ origin' = Some(o)
                     /\ pc' = "mask"
                     /\ UNCHANGED <<args, hdr, data, final, apix, ret, exc, log,
                                    written, nextbuf>>
                ELSE IF p.ok
                THEN /\ origin' = Some(o)
                     /\ log' = Append(log, "error: origin")
                     /\ ret' = Some(1)
                     /\ pc' = "done"
                     /\ UNCHANGED <<args, hdr, data, final, apix, exc, written,
                                    nextbuf>>
                ELSE Fail("error: origin")
       ELSE /\ origin' = Some(DefaultOri(box))
            /\ pc' = "mask"
            /\ log' = Append(log, "info: origin set to box center")
            /\ UNCHANGED <<args, hdr, data, final, apix, ret, exc, written, nextbuf>>

MaskAdvisory ==
    /\ pc = "mask"
    /\ UNCHANGED callvars
    /\ pc' = "matrix"
    /\ log' = IF ismask(data) /\ args.spline_order # 0
              THEN Append(log, "warn: input looks like a mask") ELSE log
    /\ UNCHANGED <<args, hdr, data, final, origin, apix, ret, exc, written, nextbuf>>

\* A resampling call of main: its exception leaves main, its result
\* replaces the working volume.
Resample(res, next) ==
    IF res.exc # "" THEN Uncaught(res.exc) ELSE Replace(res.vol, next)

ApplyMatrix ==
    /\ pc = "matrix"
    /\ UNCHANGED callvars
    /\ IF args.matrix = None THEN Skip("target")
       ELSE IF Get(args.matrix).from \in {"badjson", "empty"}
            THEN Fail("error: matrix")
       ELSE Resample(resample_volume(data, args.matrix, None, None,
                                     args.spline_order), "target")

ApplyTarget ==
    /\ pc = "target"
    /\ UNCHANGED callvars
    /\ IF args.target = None THEN Skip("euler")
       ELSE LET p == ParseList(Get(args.target))
                v == ToVox(p.val, Get(apix))
                o == Get(origin)
            IN  IF ~p.ok THEN Fail("error: target")
                ELSE IF ~Fits(Len(o), Len(v)) THEN Uncaught("ValueError:103")
                ELSE IF Len(v) # 3 THEN Uncaught("IndexError:104")
                ELSE LET res == resample_volume(data,
                                    Some(Opaque("vec2rot", Sub(v, o))),
                                    Some(Sub(v, o)), origin, args.spline_order)
                     IN  /\ log' = Append(log, "info: euler angles and shift")
                         /\ IF res.exc # ""
                            THEN /\ exc' = res.exc
                                 /\ pc' = "done"
                                 /\ UNCHANGED <<data, nextbuf>>
                            ELSE /\ data' = res.vol
                                 /\ nextbuf' = nextbuf + 1
                                 /\ pc' = "euler"
                                 /\ UNCHANGED exc
                         /\ UNCHANGED <<args, hdr, final, origin, apix, ret,
                                        written>>

ApplyEuler ==
    /\ pc = "euler"
    /\ UNCHANGED callvars
    /\ IF args.euler = None THEN Skip("translate")
       ELSE LET p == ParseList(Get(args.euler))
                o == Get(origin)
            IN  IF ~p.ok THEN Fail("error: eulers")
                ELSE IF Len(p.val) # 3 THEN Uncaught("TypeError:115")
                ELSE IF Len(o) # 3 THEN Uncaught("ValueError:117")
                ELSE Replace(Resampled(data,
                        [fn |-> "affine_transform",
                         r |-> Some(Opaque("euler2rot", p.val)), t |-> <<>>,
                         ori |-> o, order |-> args.spline_order]), "translate")

ApplyTranslate ==
    /\ pc = "translate"
    /\ UNCHANGED callvars
    /\ IF args.translate = None THEN Skip("write")
       ELSE LET p == ParseList(Get(args.translate))
                v == ToVox(p.val, Get(apix))
                o == Get(origin)
            IN  IF ~p.ok THEN Fail("error: translation")
                ELSE IF ~Fits(Len(o), Len(v)) THEN Uncaught("ValueError:126")
                ELSE IF Len(v) # 3 THEN Uncaught("RuntimeError:127")
                ELSE Replace(Resampled(data,
                        [fn |-> "shift", r |-> None,
                         t |-> Sub(<<0>>, Sub(v, o)), ori |-> <<>>,
                         order |-> args.spline_order]), "write")

\* What a call of the map writer (pyem.mrc.write) ends in: it returns, or
\* it raises an IOError or FormatError.
WriterOutcomes == {"", "IOError:132"}

\* if final is None: final = data; write(args.output, final, ...); return 0
\* written holds the volumes the writer was called with; an exception of
\* the writer is not caught and leaves main.
Write ==
    /\ pc = "write"
    /\ UNCHANGED callvars
    /\ LET f == IF final = None THEN Some(data) ELSE final
       IN  /\ final' = f
           /\ written' = Append(written, Get(f))
    /\ \E e \in WriterOutcomes :
          IF e = "" THEN ret' = Some(0) /\ UNCHANGED exc
                    ELSE exc' = e /\ UNCHANGED ret
    /\ pc' = "done"
    /\ UNCHANGED <<args, hdr, data, origin, apix, log, nextbuf>>

Next ==
    \/ Normalize
    \/ ResolveApix
    \/ Advise
    \/ ResolveOrigin
    \/ MaskAdvisory
    \/ ApplyMatrix
    \/ ApplyTarget
    \/ ApplyEuler
    \/ ApplyTranslate
    \/ Write

Spec == Init /\ [][Next]_vars

---------------------------------------------------------------------------
(* resample_volume and the Euler path called on their own *)

Shapes == {<<a, b, c>> : a \in 1..MaxDim, b \in 1..MaxDim, c \in 1..MaxDim}

Shifts == {<<a, 0, 0>> : a \in (-MaxShift)..MaxShift}

\* Rotations and translations as resample_volume may be handed them.
RArgs ==
    { None, Some(Identity3), Some(RotZ90), Some(RotX90),
      Some(Matrix(<<2>>, <<1, 2>>)), Some(Matrix(<<2, 2>>, <<1, 0, 0, 1>>)),
      Some(Stacked(3, 3)), Some(Stacked(3, 4)) }
    \cup {Some(WithColumn(Identity3, c)) : c \in Shifts \ {<<0, 0, 0>>}}

TArgs == {None, Some(<<2, 0>>)} \cup {Some(ToVox(c, 1)) : c \in Shifts}

\* Origins: the default, the exact half extent of the box, one voxel, and
\* a list of two.
OriArgs(shape) ==
    {None, Some(shape), Some(<<2, 2, 2>>), Some(<<-2, 2, 2>>), Some(<<2, 2>>)}

MainIdle ==
    /\ args = [normalize |-> FALSE, verbose |-> FALSE, reference |-> None,
               apix |-> None,
               origin |-> None, target |-> None, euler |-> None,
               translate |-> None, matrix |-> None,
               spline_order |-> DefaultOrder]
    /\ final = None
    /\ origin = None
    /\ apix = None
    /\ pc = "library"
    /\ ret = None
    /\ exc = ""
    /\ log = <<>>
    /\ written = <<>>

InitCall ==
    /\ MainIdle
    /\ \E shape \in Shapes, r \in RArgs, t \in TArgs, order \in {0, DefaultOrder} :
          \E ori \in OriArgs(shape) :
             /\ data = Volume(0, shape, "ramp")
             /\ hdr = [nx |-> shape[1], ny |-> shape[2], nz |-> shape[3],
                       xlen |-> shape[1] * HeaderApix]
             /\ call = Some([r |-> r, t |-> t, ori |-> ori, order |-> order])
    /\ result = None
    /\ eulerpath = None
    /\ nextbuf = 1

\* The coordinates handed to map_coordinates, per output voxel.
Coordinates(vol, r, t, ori) ==
    LET o == IF ori = None THEN DefaultOri(vol.shape) ELSE Get(ori)
    IN  [idx \in Indices(vol.shape) |-> SourceCoord(vol.shape, r, t, o, idx)]

\* newvol = resample_volume(data, r, t, ori, order)
CallResample ==
    /\ pc = "library"
    /\ result = None
    /\ LET c   == Get(call)
           res == resample_volume(data, c.r, c.t, c.ori, c.order)
       IN  /\ result' = Some([exc |-> res.exc, vol |-> res.vol,
                              coords |-> IF res.exc = "" /\ res.vol.ops # data.ops
                                         THEN Some(Coordinates(data, c.r, c.t, c.ori))
                                         ELSE None])
           /\ nextbuf' = IF res.exc = "" THEN nextbuf + 1 ELSE nextbuf
    /\ UNCHANGED <<mainvars, call, eulerpath>>

\* The Euler path of main for a rotation r about the origin: lines 116-118.
CallEuler ==
    /\ pc = "library"
    /\ eulerpath = None
    /\ LET c == Get(call)
           o == IF c.ori = None THEN DefaultOri(data.shape) ELSE Get(c.ori)
       IN  /\ c.r # None /\ Get(c.r).dims = <<3, 3>> /\ Len(o) = 3
           /\ eulerpath' = Some([idx \in Indices(data.shape) |->
                                    EulerSource(c.r, o, idx)])
    /\ UNCHANGED <<mainvars, call, result, nextbuf>>

NextCall == CallResample \/ CallEuler

SpecCall == InitCall /\ [][NextCall]_vars

---------------------------------------------------------------------------
(* Claims about resample_volume and the Euler path, under SpecCall *)

\* The origin resample_volume uses for the call.
CallOri == IF Get(call).ori = None THEN DefaultOri(data.shape) ELSE Get(Get(call).ori)

\* The call hands resample_volume neither a rotation nor a translation.
IdentityCall == Get(call).r = None /\ Get(call).t = None

\* C3: resample_volume with r None and t None, for any volume, origin and
\* order, returns without raising a volume whose every voxel equals the
\* input's, in a buffer other than the input's, and leaves the input as it
\* was; no coordinate grid is built and nothing is resampled.
C3_IdentityCopy ==
    (result # None /\ IdentityCall) =>
        LET res == Get(result)
        IN  /\ res.exc = ""
            /\ res.vol.shape = data.shape
            /\ \A idx \in Indices(data.shape) : Vox(res.vol, idx) = Vox(data, idx)
            /\ res.vol.norm = data.norm
            /\ res.vol.ops = <<>>
            /\ res.coords = None
            /\ res.vol.buf # data.buf
            /\ data = Volume(0, data.shape, "ramp")

C3_Witness ==
    /\ result # None
    /\ IdentityCall
    /\ Get(call).ori = Some(<<2, 2>>)
    /\ Get(call).order = 0
    /\ data.shape = <<3, 2, 1>>

\* The rotation is absent or a numeric 3x3 or 3x4 array, the translation is
\* absent or has three components, and the origin is absent or has three
\* coordinates, each below the box dimension (what main's validation takes).
ValidCall ==
    LET c == Get(call)
    IN  /\ c.r # None => Get(c.r).dims \in {<<3, 3>>, <<3, 4>>}
        /\ c.t # None => Len(Get(c.t)) = 3
        /\ c.ori # None =>
              /\ Len(Get(c.ori)) = 3
              /\ \A a \in 1..3 : Get(c.ori)[a] < 2 * data.shape[a]

\* C7: for any box with positive dimensions, any origin that validation
\* takes (or the default), any rotation, translation and order,
\* resample_volume completes, returns a volume of the input's shape, and the
\* grid it builds has nx*ny*nz points.
C7_ShapePreserved ==
    (result # None /\ ValidCall) =>
        /\ Get(result).exc = ""
        /\ Get(result).vol.shape = data.shape
        /\ ~IdentityCall => GridSize(CallOri) = Prod(data.shape)

\* The fourth column of a 3x4 array r, in half voxels.
Column(r) == <<2 * Entry(r, 1, 4), 2 * Entry(r, 2, 4), 2 * Entry(r, 3, 4)>>

\* The 3x3 rotation part of a 3x4 array r.
RotationPart(r) ==
    Matrix(<<3, 3>>, <<Entry(r, 1, 1), Entry(r, 1, 2), Entry(r, 1, 3),
                       Entry(r, 2, 1), Entry(r, 2, 2), Entry(r, 2, 3),
                       Entry(r, 3, 1), Entry(r, 3, 2), Entry(r, 3, 3)>>)

\* C8: the translation component of T applied to the grid is t - o when t
\* is supplied, the fourth column of r minus o when t is absent and r is
\* 3x4, and zero otherwise; so a 3x4 array with a non-zero column samples
\* other source coordinates than its 3x3 part.
C8_EmbeddedTranslation ==
    (result # None /\ Get(result).coords # None) =>
        LET c   == Get(call)
            res == Get(result)
            op  == res.vol.ops[Len(res.vol.ops)]
        IN  /\ c.t # None => op.t = Sub(Get(c.t), CallOri)
            /\ (c.t = None /\ Get(c.r).dims = <<3, 4>>) =>
                  /\ op.t = Sub(Column(Get(c.r)), CallOri)
                  /\ Column(Get(c.r)) # <<0, 0, 0>> =>
                        Get(res.coords) #
                          Coordinates(data, Some(RotationPart(Get(c.r))), None, c.ori)
            /\ (c.t = None /\ Get(c.r).dims = <<3, 3>>) => op.t = <<0, 0, 0>>

\* C9: for the same rotation and origin and no translation, the Euler path
\* and resample_volume sample the same source coordinate for every output
\* voxel.
C9_PathsAgree ==
    (result # None /\ eulerpath # None /\ Get(call).t = None
        /\ Get(result).coords # None) =>
        Get(Get(result).coords) = Get(eulerpath)

---------------------------------------------------------------------------
(* Claims about main, under Spec *)

PoseOrder == <<"matrix", "target", "euler", "translate">>

PoseSteps == {"matrix", "target", "euler", "translate"}

Stages == <<"normalize", "apix", "advise", "origin", "mask", "matrix", "target",
            "euler", "translate", "write", "done">>

Pos(p) == CHOOSE i \in 1..Len(Stages) : Stages[i] = p

\* The pose step a resampling call of main belongs to.
StepOf(op) ==
    IF op.fn = "affine_transform" THEN "euler"
    ELSE IF op.fn = "shift" THEN "translate"
    ELSE IF Get(op.r).from = "vec2rot" THEN "target"
    ELSE "matrix"

\* The pose steps applied to a volume, first to last.
Applied(vol) == [i \in 1..Len(vol.ops) |-> StepOf(vol.ops[i])]

\* The requested pose steps that come before stage p, in the fixed order.
RequestedBefore(p) ==
    SelectSeq(PoseOrder, LAMBDA s : args[s] # None /\ Pos(s) < Pos(p))

IsPrefix(a, b) == Len(a) <= Len(b) /\ a = SubSeq(b, 1, Len(a))

\* The working volume is what the requested steps so far make of the volume
\* read, applied one to the result of the other in the fixed order (all of
\* them once main returns 0, the ones before the failure otherwise).
OrderState ==
    /\ data.shape = box /\ data.norm = "none"
    /\ IF pc = "done" /\ ret # Some(0)
       THEN IsPrefix(Applied(data), RequestedBefore("done"))
       ELSE Applied(data) = RequestedBefore(pc)

\* A step replaces the working volume only by a resampling of the working
\* volume it found, at the stage of a requested pose step.
OrderStep ==
    /\ data' # data =>
          /\ pc \in PoseSteps /\ args[pc] # None
          /\ Len(data'.ops) = Len(data.ops) + 1
          /\ SubSeq(data'.ops, 1, Len(data.ops)) = data.ops
          /\ StepOf(data'.ops[Len(data'.ops)]) = pc
          /\ data'.buf # data.buf
    /\ (pc \in PoseSteps /\ args[pc] = None) => data' = data

\* C1: for every subset of the pose requests matrix, target, euler and
\* translate, the requested steps are applied in that fixed order, each to
\* the working volume the previous requested step produced, and a step that
\* is not requested leaves the working volume unchanged.
C1_FixedOrder == OrderState /\ [][OrderStep /\ OrderState']_vars

C1_Witness ==
    /\ pc = "done"
    /\ ret = Some(0)
    /\ Applied(data) = PoseOrder
    /\ data.ops[2].ori = Get(origin)

\* C2: when normalization is requested with pose transforms, the volume
\* handed to the writer is the normalized volume with every requested step
\* applied to it in order.
C2_NormalizedPipeline ==
    (ret = Some(0) /\ args.normalize) =>
        /\ Len(written) = 1
        /\ written[1].norm # "none"
        /\ Applied(written[1]) = RequestedBefore("done")

\* The origin argument parses to three coordinates.
OriginGiven == args.origin # None /\ ParseList(Get(args.origin)).ok
                  /\ Len(Get(args.origin)) = 3

\* The origin argument in half voxels.
OriginVox == ToVox(ParseList(Get(args.origin)).val, Get(apix))

\* A supplied origin with a coordinate at or above the box dimension ends
\* the run with status 1 before any transform step; one with every
\* coordinate below its box dimension, negative ones too, is taken as the
\* origin and the run goes on.
OriginValidation ==
    /\ (OriginGiven /\ \E a \in 1..3 : OriginVox[a] >= 2 * box[a]) =>
          /\ pc = "done" /\ ret = Some(1) /\ exc = ""
          /\ data.ops = <<>> /\ written = <<>>
    /\ (OriginGiven /\ \A a \in 1..3 : OriginVox[a] < 2 * box[a]) =>
          origin = Some(OriginVox)

\* C4: origins at or above the box fail with status 1 before any transform,
\* origins below the box (negative ones too) are taken, and with no origin
\* supplied the origin is the box dimensions divided by 2, the centre of the
\* box (lengths are in half voxels: half of n voxels is n half voxels).
C4_OriginResolution ==
    (Pos(pc) > Pos("origin")) =>
        /\ OriginValidation
        /\ args.origin = None => origin = Some(box)

\* A list argument is malformed: a token is no numeral, or it has not three
\* components.
MalformedList(a) ==
    a # None /\ (~ParseList(Get(a)).ok \/ Len(Get(a)) # 3)

\* A matrix argument is malformed: no JSON, or no 3x3 or 3x4 array.
MalformedMatrix(m) ==
    m # None /\ (Get(m).from \in {"badjson", "empty"}
                    \/ Get(m).dims \notin {<<3, 3>>, <<3, 4>>})

\* The stage of main that consumes a malformed value.
AtMalformed ==
    \/ pc = "origin" /\ MalformedList(args.origin)
    \/ pc = "matrix" /\ MalformedMatrix(args.matrix)
    \/ pc \in {"target", "euler", "translate"} /\ MalformedList(args[pc])

\* C5: every malformed value of origin, target, euler, translate and matrix
\* makes main end in the controlled failure (an error logged, 1 returned);
\* none lets an exception leave main.
C5_ControlledFailure ==
    [][AtMalformed => (pc' = "done" /\ ret' = Some(1) /\ exc' = ""
                          /\ Len(log') = Len(log) + 1)]_vars

\* C6, as stated: the writer is invoked at most once in a run, exactly once
\* if and only if main returns 0, and never in a run that returns 1, also
\* when earlier steps had already resampled the working volume.
C6_WriteOnlyOnSuccess ==
    /\ Len(written) <= 1
    /\ Len(written) = 1 <=> ret = Some(0)
    /\ ret = Some(1) => written = <<>>

\* C6, amended: the writer is invoked at most once in a run, and only as the
\* last step of a run in which no step failed or raised; a run that returns
\* 0 has invoked it exactly once, a run that has invoked it returns 0 or
\* ends with the exception the writer raised, and a run that returns 1, or
\* that a transform step's exception ends, has not invoked it, also when
\* earlier steps had already resampled the working volume.
C6_WriteLast ==
    /\ Len(written) <= 1
    /\ ret = Some(0) => Len(written) = 1
    /\ Len(written) = 1 =>
          /\ pc = "done"
          /\ \/ ret = Some(0) /\ exc = ""
             \/ ret = None /\ exc \in WriterOutcomes \ {""}
    /\ ret = Some(1) => written = <<>>
    /\ (ret # None \/ exc # "") <=> pc = "done"

C6_Witness ==
    /\ ret = Some(1)
    /\ Len(data.ops) >= 2
    /\ written = <<>>

\* The volume as read.
AsRead == Volume(0, box, data.kind)

\* The number of distinct values at the first-axis indices nz/2, nz/2 + nz, ...
SampledValues(vol) ==
    LET first == {i \in 0..(vol.shape[1] - 1) :
                    \E n \in 0..vol.shape[1] :
                        i = (vol.shape[3] \div 2) + n * vol.shape[3]}
    IN  {Vox(vol, <<i, j, k>>) : i \in first, j \in 0..(vol.shape[2] - 1),
                                k \in 0..(vol.shape[3] - 1)}

MaskWarning == "warn: input looks like a mask"

Count(seq, x) == Cardinality({i \in 1..Len(seq) : seq[i] = x})

\* The advisory step: it logs the advisory exactly when the volume as read is
\* mask-like and the order is not 0, and changes nothing else of the run; no
\* other step logs it; a volume of fewer than 100 distinct values is
\* mask-like.
MaskStep ==
    IF pc = "mask"
    THEN /\ data = AsRead
         /\ log' = IF Cardinality(SampledValues(AsRead)) < 100
                       /\ args.spline_order # 0
                    THEN Append(log, MaskWarning) ELSE log
         /\ (Cardinality({Vox(AsRead, idx) : idx \in Indices(box)}) < 100
                /\ args.spline_order # 0) => log' = Append(log, MaskWarning)
         /\ pc' = "matrix"
         /\ UNCHANGED <<args, hdr, data, final, origin, apix, ret, exc, written>>
    ELSE Count(log', MaskWarning) = Count(log, MaskWarning)

\* C10: the mask advisory is emitted exactly when the input as read is
\* mask-like (fewer than 100 distinct values among the sampled voxels) and
\* the spline order is not 0; it is evaluated once, on the volume as read,
\* and never blocks the run or changes what is written; every volume with
\* fewer than 100 distinct values overall is mask-like.
C10_MaskAdvisory == [][MaskStep]_vars

C10_Witness ==
    /\ pc = "done"
    /\ ret = Some(0)
    /\ Count(log, MaskWarning) = 1
    /\ box = <<10, 10, 10>>
    /\ data.ops # <<>>

=============================================================================
